---- MODULE Spec2Model ----
(***************************************************************************)
(* Model of the schedule-board filter (filterStopDetails.ts), of the route *)
(* slicer and projector (MapComponent.getRoute, updateRoute) and of the    *)
(* vehicle loop and tracking handlers of MapComponent of zpgsa-angular.    *)
(*                                                                         *)
(* Strings that the code parses (bus.time, point.order) are sequences of   *)
(* one-character strings, so that parsing is computed, not assumed.        *)
(* Dates are {year, month, day, weekday} of a non-leap year; year is an    *)
(* offset (0 = the year of the wall clock, 1 = the year after).            *)
(***************************************************************************)
EXTENDS Integers, Sequences, FiniteSets, TLC

VARIABLES
    buses,          \* stop.buses: the stop's timetable (StopDetailsBus[])
    clock,          \* the wall clock that DateTime.now() reads
    pc,             \* "idle" before the stop is clicked, "shown" after
    nowDate,        \* filterStopDetails: const nowDate
    dayBuses,       \* filterStopDetails: filteredBuses after line 53
    filteredBuses,  \* filterStopDetails: filteredBuses after line 57
    extendedRan,    \* whether the branch of line 59 was taken
    extended,       \* filterStopDetails: extended (lines 60-64), <<>> if not taken
    result,         \* the returned buses (line 68)
    route,          \* getRoute: the Route[] fetched for bus.route
    latestRouteStop,\* getRoute: bus.latest_route_stop
    routePc,        \* "fetched" before getRoute filters the route, "done" after,
                    \* "projected" once updateRoute has built fullPath from it
    ahead,          \* what getRoute returns
    stops,          \* this.stops: the stop lookup (Stop[])
    busLatLng,      \* updateRoute: <<bus.lat, bus.lon>>
    fullPath,       \* updateRoute: fullPath (line 270)
    mapBuses,       \* this.buses of MapComponent: the vehicle snapshots held
    busMarkers,     \* this.busMarkers: vehicle id -> position of its marker
    currentRouteBusId, \* this.currentRouteBusId
    currentRoute,   \* this.currentRoute: a polyline, or NoPolyline for null
    polylines,      \* the L.Polyline objects alive: polyline -> its points
    mapLayers,      \* the polylines added to this.map
    tasks,          \* the updateRoute calls awaiting their route
    pending,        \* the /api/buses requests awaiting their response
    polls,          \* how many /api/buses requests the timer has sent
    clicks,         \* how many context-menu events there have been
    lastPoll        \* the /api/buses response handled last

filterVars == <<buses, clock, pc, nowDate, dayBuses, filteredBuses, extendedRan, extended, result>>

routeVars == <<route, latestRouteStop, routePc, ahead, stops, busLatLng, fullPath>>

trackVars == <<mapBuses, busMarkers, currentRouteBusId, currentRoute, polylines,
               mapLayers, tasks, pending, polls, clicks, lastPoll>>

vars == <<filterVars, routeVars, trackVars>>

-----------------------------------------------------------------------------
(* Bounds of the model.                                                    *)

\* Longest timetable enumerated entry by entry.
MaxLen == 3

\* Longest route.
MaxRoute == 3

-----------------------------------------------------------------------------
(* Sequences.                                                              *)

Range(s) == {s[i] : i \in 1..Len(s)}

Min(a, b) == IF a <= b THEN a ELSE b

\* Array.prototype.slice(0, n)
Slice0(s, n) == SubSeq(s, 1, Min(n, Len(s)))

RemoveAt(s, i) == SubSeq(s, 1, i - 1) \o SubSeq(s, i + 1, Len(s))

RECURSIVE Repeat(_, _)
Repeat(e, n) == IF n = 0 THEN <<>> ELSE <<e>> \o Repeat(e, n - 1)

\* Every sequence over S of length at most n.
SeqsUpTo(S, n) == UNION {[1..k -> S] : k \in 0..n}

\* Every distinct rearrangement of s.
RECURSIVE Arrangements(_)
Arrangements(s) ==
    IF s = <<>> THEN {<<>>}
    ELSE UNION { {<<s[i]>> \o q : q \in Arrangements(RemoveAt(s, i))} :
                 i \in {j \in 1..Len(s) : \A k \in 1..(j - 1) : s[k] # s[j]} }

-----------------------------------------------------------------------------
(* Text.                                                                   *)

Str_07_00 == <<"0", "7", ":", "0", "0">>
Str_08_00 == <<"0", "8", ":", "0", "0">>
Str_12_00 == <<"1", "2", ":", "0", "0">>
\* One-digit hour: not HH.
Str_8_00 == <<"8", ":", "0", "0">>
\* Leading blank: HH:mm only once trimmed.
Str_sp_07_30 == <<" ", "0", "7", ":", "3", "0">>

Digits == {"0", "1", "2", "3", "4", "5", "6", "7", "8", "9"}

DigitVal(c) ==
    CASE c = "0" -> 0 [] c = "1" -> 1 [] c = "2" -> 2 [] c = "3" -> 3 [] c = "4" -> 4
      [] c = "5" -> 5 [] c = "6" -> 6 [] c = "7" -> 7 [] c = "8" -> 8 [] c = "9" -> 9

\* String.prototype.trim, for blanks.
RECURSIVE Trim(_)
Trim(s) ==
    IF s = <<>> THEN s
    ELSE IF Head(s) = " " THEN Trim(Tail(s))
    ELSE IF s[Len(s)] = " " THEN Trim(SubSeq(s, 1, Len(s) - 1))
    ELSE s

\* luxon DateTime.fromFormat(text, 'HH:mm'): valid iff text is exactly two
\* digits, a colon, two digits, with hour <= 23 and minute <= 59.
FromFormat(text) ==
    LET shaped == /\ Len(text) = 5
                  /\ text[1] \in Digits /\ text[2] \in Digits
                  /\ text[3] = ":"
                  /\ text[4] \in Digits /\ text[5] \in Digits
        h == DigitVal(text[1]) * 10 + DigitVal(text[2])
        m == DigitVal(text[4]) * 10 + DigitVal(text[5])
    IN  IF shaped /\ h <= 23 /\ m <= 59
        THEN [isValid |-> TRUE, hour |-> h, minute |-> m]
        ELSE [isValid |-> FALSE, hour |-> 0, minute |-> 0]

-----------------------------------------------------------------------------
(* Calendar.                                                               *)

DaysInMonth == <<31, 28, 31, 30, 31, 30, 31, 31, 30, 31, 30, 31>>

D(d, m) == [day |-> d, month |-> m]

daysFreeFromSchool ==
    { D(26, 12), D(27, 12), D(30, 12), D(31, 12), D(2, 1), D(3, 1), D(3, 2),
      D(4, 2), D(5, 2), D(6, 2), D(7, 2), D(10, 2), D(11, 2), D(12, 2), D(13, 2),
      D(14, 2), D(22, 4) }

holidays ==
    { D(6, 1), D(19, 6), D(1, 11), D(1, 1), D(23, 12), D(24, 12), D(25, 12),
      D(17, 4), D(18, 4), D(19, 4), D(20, 4), D(21, 4), D(1, 5), D(3, 5) }

Date(y, m, d, wd) == [year |-> y, month |-> m, day |-> d, weekday |-> wd]

DateTime(date, h, mi, s) ==
    [year |-> date.year, month |-> date.month, day |-> date.day,
     weekday |-> date.weekday, hour |-> h, minute |-> mi, second |-> s]

\* luxon DateTime.plus({days: 1}): the same clock time on the next date.
PlusOneDay(dt) ==
    LET wd == (dt.weekday % 7) + 1
    IN  IF dt.day < DaysInMonth[dt.month]
        THEN [dt EXCEPT !.day = dt.day + 1, !.weekday = wd]
        ELSE IF dt.month < 12
        THEN [dt EXCEPT !.day = 1, !.month = dt.month + 1, !.weekday = wd]
        ELSE [dt EXCEPT !.day = 1, !.month = 1, !.year = dt.year + 1, !.weekday = wd]

RECURSIVE DaysBefore(_)
DaysBefore(month) == IF month = 1 THEN 0 ELSE DaysBefore(month - 1) + DaysInMonth[month - 1]

\* DateTime.valueOf, in seconds from the start of year 0.
ToSeconds(dt) ==
    ((dt.year * 365 + DaysBefore(dt.month) + dt.day - 1) * 24 + dt.hour) * 3600
        + dt.minute * 60 + dt.second

-----------------------------------------------------------------------------
(* Timetable entries (StopDetailsBus).                                     *)

Bus(t, l, od, sr) ==
    [time |-> t, line |-> l, destination |-> "A", operating_days |-> od,
     school_restriction |-> sr]

-----------------------------------------------------------------------------
(* filterStopDetails.ts                                                    *)

\* The number of entries shown (lines 59 and 68).
Limit == 15

isHolidayDate(date) == \E d \in holidays : d.day = date.day /\ d.month = date.month

isSchoolDayDate(date) ==
    ~(\E d \in daysFreeFromSchool : d.day = date.day /\ d.month = date.month)

\* KeepsBus with the weekday looked at before the holiday table.
KeepsBus_WeekdayFirst(date, bus) ==
    CASE date.weekday = 7 -> bus.operating_days = "sun"
      [] date.weekday = 6 -> bus.operating_days = "sat"
      [] OTHER ->
           IF isHolidayDate(date) THEN bus.operating_days = "sun"
           ELSE /\ bus.operating_days = "mon_fri"
                /\ IF bus.school_restriction = "free_day_only" THEN ~isSchoolDayDate(date)
                   ELSE IF bus.school_restriction = "school_only" THEN isSchoolDayDate(date)
                   ELSE TRUE

\* KeepsBus with the two school restrictions exchanged.
KeepsBus_RestrictionsSwapped(date, bus) ==
    IF isHolidayDate(date) THEN bus.operating_days = "sun"
    ELSE CASE date.weekday = 7 -> bus.operating_days = "sun"
           [] date.weekday = 6 -> bus.operating_days = "sat"
           [] OTHER ->
                /\ bus.operating_days = "mon_fri"
                /\ IF bus.school_restriction = "free_day_only" THEN isSchoolDayDate(date)
                   ELSE IF bus.school_restriction = "school_only" THEN ~isSchoolDayDate(date)
                   ELSE TRUE

\* The predicate of buses.filter in filterBuses.
KeepsBus(date, bus) ==
    IF isHolidayDate(date) THEN bus.operating_days = "sun"
    ELSE CASE date.weekday = 7 -> bus.operating_days = "sun"
           [] date.weekday = 6 -> bus.operating_days = "sat"
           [] OTHER ->
                /\ bus.operating_days = "mon_fri"
                /\ IF bus.school_restriction = "free_day_only" THEN ~isSchoolDayDate(date)
                   ELSE IF bus.school_restriction = "school_only" THEN isSchoolDayDate(date)
                   ELSE TRUE

filterBuses(date, bs) == SelectSeq(bs, LAMBDA bus : KeepsBus(date, bus))

\* NextDayBuses classifying the reference date again.
NextDayBuses_SameDay(now, bs) == filterBuses(now, bs)

\* Lines 60-61: the entries the extension starts from.
NextDayBuses(now, bs) == filterBuses(PlusOneDay(now), bs)

\* parseBusTime: null is [isValid |-> FALSE]; otherwise the parsed clock time
\* set on now's year, month and day.
parseBusTime(busTime, now) ==
    LET parsedTime == FromFormat(busTime)
    IN  IF parsedTime.isValid
        THEN [isValid |-> TRUE,
              value |-> [now EXCEPT !.hour = parsedTime.hour,
                                    !.minute = parsedTime.minute, !.second = 0]]
        ELSE [isValid |-> FALSE, value |-> now]

\* NotPassed with > for >=.
NotPassed_Strict(bus, now) ==
    LET busTime == parseBusTime(bus.time, now)
    IN  IF busTime.isValid THEN ToSeconds(busTime.value) > ToSeconds(now) ELSE FALSE

\* The predicate of the filter of lines 54-57.
NotPassed(bus, now) ==
    LET busTime == parseBusTime(bus.time, now)
    IN  IF busTime.isValid THEN ToSeconds(busTime.value) >= ToSeconds(now) ELSE FALSE

\* The text a sort comparator parses: a.time (line 57) or a.time.trim()
\* (lines 61-62).
ComparedText(bus, trimmed) == IF trimmed THEN Trim(bus.time) ELSE bus.time

\* toMillis() of the parsed time, in minutes from the start of the day the
\* comparator runs on; NaN for an invalid DateTime.
SortKey(bus, trimmed) ==
    LET p == FromFormat(ComparedText(bus, trimmed))
    IN  [isNaN |-> ~p.isValid, minutes |-> p.hour * 60 + p.minute]

\* Compare with b - a for a - b.
Compare_Reversed(a, b, trimmed) ==
    LET ka == SortKey(a, trimmed)
        kb == SortKey(b, trimmed)
    IN  IF ka.isNaN \/ kb.isNaN THEN 0 ELSE kb.minutes - ka.minutes

\* The comparator's verdict as Array.prototype.sort reads it: a NaN
\* difference counts as 0.
Compare(a, b, trimmed) ==
    LET ka == SortKey(a, trimmed)
        kb == SortKey(b, trimmed)
    IN  IF ka.isNaN \/ kb.isNaN THEN 0 ELSE ka.minutes - kb.minutes

\* Stable insertion: e goes behind every element that does not compare
\* greater than it.
RECURSIVE InsertStable(_, _, _)
InsertStable(sorted, e, trimmed) ==
    IF sorted = <<>> THEN <<e>>
    ELSE IF Compare(sorted[Len(sorted)], e, trimmed) <= 0 THEN Append(sorted, e)
    ELSE Append(InsertStable(SubSeq(sorted, 1, Len(sorted) - 1), e, trimmed),
                sorted[Len(sorted)])

RECURSIVE StableSort(_, _)
StableSort(s, trimmed) ==
    IF s = <<>> THEN <<>>
    ELSE InsertStable(StableSort(SubSeq(s, 1, Len(s) - 1), trimmed), s[Len(s)], trimmed)

\* A comparator is consistent when "compares equal" is transitive: here,
\* when no key is NaN or all the keys that are numbers are the same.
ConsistentComparator(s, trimmed) ==
    LET nums == {i \in 1..Len(s) : ~SortKey(s[i], trimmed).isNaN}
    IN  \/ nums = 1..Len(s)
        \/ \A i, j \in nums : SortKey(s[i], trimmed).minutes = SortKey(s[j], trimmed).minutes

\* Array.prototype.sort: stable for a consistent comparator; for an
\* inconsistent one the order is implementation-defined (ECMA-262), any
\* rearrangement of the elements.
SortOutcomes(s, trimmed) ==
    IF ConsistentComparator(s, trimmed) THEN {StableSort(s, trimmed)}
    ELSE Arrangements(s)
\* Appended with the extension spread twice.
Appended_Twice(sorted, ext) == sorted \o ext \o ext

\* [...filteredBuses, ...extended] (line 65)
Appended(sorted, ext) == sorted \o ext

\* Returned without the slice.
Returned_Unsliced(filtered) == filtered

\* filteredBuses.slice(0, 15) (line 68)
Returned(filtered) == Slice0(filtered, Limit)

-----------------------------------------------------------------------------
(* Inputs: the timetables and the wall-clock readings explored.            *)

RestrictionTexts == {"none", "school_only", "free_day_only"}

OperatingDayTexts == {"mon_fri", "sat", "sun"}

PoolTimes == {Str_07_00, Str_08_00, Str_8_00, Str_sp_07_30}

Pool == {Bus(t, "1", od, "none") : t \in PoolTimes, od \in OperatingDayTexts}

\* Every timetable of at most MaxLen entries of the pool.
ShortTimetables == SeqsUpTo(Pool, MaxLen)

Filler == Bus(Str_08_00, "2", "mon_fri", "none")

\* At most one entry of the pool, then about Limit equal departures.
LongTimetables ==
    {p \o Repeat(Filler, n) : p \in SeqsUpTo(Pool, 1), n \in (Limit - 1)..(Limit + 1)}

\* One entry for each operating-day class and school restriction, at noon.
CalendarTimetable ==
    << Bus(Str_12_00, "1", "mon_fri", "none"), Bus(Str_12_00, "1", "sat", "none"),
       Bus(Str_12_00, "1", "sun", "none"), Bus(Str_12_00, "1", "mon_fri", "school_only"),
       Bus(Str_12_00, "1", "sat", "school_only"), Bus(Str_12_00, "1", "sun", "school_only"),
       Bus(Str_12_00, "1", "mon_fri", "free_day_only"),
       Bus(Str_12_00, "1", "sat", "free_day_only"),
       Bus(Str_12_00, "1", "sun", "free_day_only") >>

\* Every date of a non-leap year, on every weekday it can fall on.
AllDates ==
    UNION { {Date(0, m, d, wd) : d \in 1..DaysInMonth[m], wd \in 1..7} : m \in 1..12 }

Tue_Jan_07 == Date(0, 1, 7, 2)
Fri_Jan_10 == Date(0, 1, 10, 5)
Tue_Dec_22 == Date(0, 12, 22, 2)
Sat_Apr_19 == Date(0, 4, 19, 6)
Wed_Dec_31 == Date(0, 12, 31, 3)

\* The readings of the wall clock the timetables above are filtered at.
RefClocks ==
    { DateTime(Tue_Jan_07, 7, 30, 0), DateTime(Tue_Jan_07, 8, 0, 0),
      DateTime(Tue_Jan_07, 8, 0, 1), DateTime(Fri_Jan_10, 7, 30, 0),
      DateTime(Tue_Dec_22, 7, 30, 0), DateTime(Sat_Apr_19, 7, 30, 0),
      DateTime(Wed_Dec_31, 7, 30, 0) }

Inputs ==
    ((ShortTimetables \cup LongTimetables) \X RefClocks)
        \cup ({CalendarTimetable} \X {DateTime(d, 10, 0, 0) : d \in AllDates})

-----------------------------------------------------------------------------
(* MapComponent as constructed: no vehicle known, nothing tracked.         *)

\* null of currentRouteBusId.
NULL == "null"

\* null of currentRoute; the polylines are numbered from 1.
NoPolyline == 0

\* Before any /api/buses response.
NoPoll == [seq |-> 0, payload |-> <<>>]

\* The vehicles the server reports.
VehicleIds == {"v1", "v2"}

\* busMarkers[id] of a vehicle never seen (undefined).
NoMarker == <<>>

InitMap ==
    /\ mapBuses = <<>>
    /\ busMarkers = [id \in VehicleIds |-> NoMarker]
    /\ currentRouteBusId = NULL
    /\ currentRoute = NoPolyline
    /\ polylines = {}
    /\ mapLayers = {}
    /\ tasks = {}
    /\ pending = {}
    /\ polls = 0
    /\ clicks = 0
    /\ lastPoll = NoPoll

-----------------------------------------------------------------------------
(* The stop-detail click: filterStopDetails(stop).                         *)

InitFilter ==
    /\ \E in \in Inputs : buses = in[1] /\ clock = in[2]
    /\ pc = "idle"
    /\ nowDate = clock
    /\ dayBuses = <<>>
    /\ filteredBuses = <<>>
    /\ extendedRan = FALSE
    /\ extended = <<>>
    /\ result = <<>>
    /\ route = <<>>
    /\ latestRouteStop = ""
    /\ routePc = "projected"
    /\ ahead = <<>>
    /\ stops = <<>>
    /\ busLatLng = <<0, 0>>
    /\ fullPath = <<>>
    /\ InitMap

filterStopDetails ==
    /\ pc = "idle"
    /\ LET now == clock
           day == filterBuses(now, buses)
           kept == SelectSeq(day, LAMBDA bus : NotPassed(bus, now))
       IN  \E sorted \in SortOutcomes(kept, FALSE) :
             \E ext \in (IF Len(sorted) < Limit
                         THEN SortOutcomes(NextDayBuses(now, buses), TRUE)
                         ELSE {<<>>}) :
               /\ nowDate' = now
               /\ dayBuses' = day
               /\ filteredBuses' = sorted
               /\ extendedRan' = (Len(sorted) < Limit)
               /\ extended' = ext
               /\ result' = Returned(IF Len(sorted) < Limit THEN Appended(sorted, ext)
                                     ELSE sorted)
    /\ pc' = "shown"
    /\ UNCHANGED <<buses, clock>>
    /\ UNCHANGED <<routeVars, trackVars>>

NextFilter == filterStopDetails

SpecFilter == InitFilter /\ [][NextFilter]_vars
-----------------------------------------------------------------------------
(* MapComponent.getRoute, from the fetched route on.                       *)

RECURSIVE SkipBlanks(_)
SkipBlanks(text) ==
    IF text # <<>> /\ Head(text) = " " THEN SkipBlanks(Tail(text)) ELSE text

\* The value of the longest prefix of digits of text, continuing from acc.
RECURSIVE DigitsValue(_, _)
DigitsValue(text, acc) ==
    IF text # <<>> /\ Head(text) \in Digits
    THEN DigitsValue(Tail(text), acc * 10 + DigitVal(Head(text)))
    ELSE acc

\* parseInt(text): leading blanks are skipped, a sign is read, then the
\* longest prefix of decimal digits; NaN when there is no digit. (A 0x
\* prefix, which parseInt reads as hexadecimal, is not modelled.)
ParseInt(text) ==
    LET t == SkipBlanks(text)
        signed == t # <<>> /\ Head(t) \in {"+", "-"}
        body == IF signed THEN Tail(t) ELSE t
        magnitude == DigitsValue(body, 0)
    IN  IF body = <<>> \/ Head(body) \notin Digits
        THEN [isNaN |-> TRUE, value |-> 0]
        ELSE [isNaN |-> FALSE,
              value |-> IF signed /\ Head(t) = "-" THEN 0 - magnitude ELSE magnitude]

\* OrderAhead with >= for >.
OrderAhead_Inclusive(point, currentOrder) ==
    LET a == ParseInt(point.order)
        b == ParseInt(currentOrder)
    IN  ~a.isNaN /\ ~b.isNaN /\ a.value >= b.value

\* parseInt(point.order) > parseInt(currentOrder) (line 250); a comparison
\* with NaN is false.
OrderAhead(point, currentOrder) ==
    LET a == ParseInt(point.order)
        b == ParseInt(currentOrder)
    IN  ~a.isNaN /\ ~b.isNaN /\ a.value > b.value

\* Lines 247-250: the order of the first checkpoint at the bus's latest stop;
\* [] when there is none or its order is falsy (the empty string).
SliceAhead(rt, latest) ==
    LET found == {i \in 1..Len(rt) : rt[i].stopId = latest}
    IN  IF found = {} THEN <<>>
        ELSE LET first == CHOOSE i \in found : \A j \in found : i <= j
                 currentOrder == rt[first].order
             IN  IF currentOrder = <<>> THEN <<>>
                 ELSE SelectSeq(rt, LAMBDA point : OrderAhead(point, currentOrder))

Point(sid, ord) == [stopId |-> sid, order |-> ord]

StopIds == {"A", "B", "C"}

OrderTexts == {<<"0">>, <<"1">>, <<"2">>, <<"3">>, <<"1", "0">>, <<>>}

Points == {Point(sid, ord) : sid \in StopIds, ord \in OrderTexts}

Stop(sid, la, lo) == [id |-> sid, lat |-> la, lon |-> lo]

\* Stop B on the equator and stop C on the prime meridian.
StopsOnAxes == <<Stop("A", 50, 16), Stop("B", 0, 16), Stop("C", 51, 0)>>

\* Stop B unknown and stop C at the origin.
StopsWithGap == <<Stop("A", 50, 16), Stop("C", 0, 0)>>

StopTables == {StopsOnAxes, StopsWithGap}

\* Where the vehicle of the route is.
VehicleLatLng == <<50, 17>>

\* Lines 264-267: the coordinates of the stop of a checkpoint, [0, 0] for a
\* stop the lookup does not hold.
StopLatLng(point, stopTable) ==
    LET found == {j \in 1..Len(stopTable) : stopTable[j].id = point.stopId}
    IN  IF found = {} THEN <<0, 0>>
        ELSE LET first == CHOOSE j \in found : \A k \in found : j <= k
             IN  <<stopTable[first].lat, stopTable[first].lon>>

\* The predicate of the filter of line 268.
KeepsLatLng(latLng) == latLng[1] # 0 /\ latLng[2] # 0

\* Lines 263-268: paths.
Paths(rt, stopTable) ==
    SelectSeq([i \in 1..Len(rt) |-> StopLatLng(rt[i], stopTable)], KeepsLatLng)

\* FullPath without the vehicle's position in front.
FullPath_StopsOnly(latLng, rt, stopTable) == Paths(rt, stopTable)

\* Line 270: fullPath.
FullPath(latLng, rt, stopTable) == <<latLng>> \o Paths(rt, stopTable)

InitRoute ==
    /\ route \in SeqsUpTo(Points, MaxRoute)
    /\ latestRouteStop \in StopIds \cup {"Z"}
    /\ routePc = "fetched"
    /\ ahead = <<>>
    /\ stops \in StopTables
    /\ busLatLng = VehicleLatLng
    /\ fullPath = <<>>
    /\ InitMap
    /\ buses = <<>>
    /\ clock = DateTime(Tue_Jan_07, 7, 30, 0)
    /\ pc = "idle"
    /\ nowDate = clock
    /\ dayBuses = <<>>
    /\ filteredBuses = <<>>
    /\ extendedRan = FALSE
    /\ extended = <<>>
    /\ result = <<>>

getRoute ==
    /\ routePc = "fetched"
    /\ ahead' = SliceAhead(route, latestRouteStop)
    /\ routePc' = "done"
    /\ UNCHANGED <<route, latestRouteStop, stops, busLatLng, fullPath>>
    /\ UNCHANGED <<filterVars, trackVars>>

\* updateRoute, lines 263-270, on what getRoute returned.
projectPath ==
    /\ routePc = "done"
    /\ fullPath' = FullPath(busLatLng, ahead, stops)
    /\ routePc' = "projected"
    /\ UNCHANGED <<route, latestRouteStop, ahead, stops, busLatLng>>
    /\ UNCHANGED <<filterVars, trackVars>>

NextRoute == getRoute \/ projectPath

SpecRoute == InitRoute /\ [][NextRoute]_vars

-----------------------------------------------------------------------------
(* The vehicle loop and the tracking of one vehicle: initBusesLoop, the    *)
(* context menu of a vehicle marker, updateRoute.                          *)
(*                                                                         *)
(* A handler runs to completion, and the microtasks it queues run before   *)
(* any other event: the updateRoute a handler queues has read this.buses   *)
(* and sent its route request by the end of the handler's step, and the    *)
(* rest of updateRoute is one step, taken when the route arrives.          *)

\* text.split(sep)[0]
SplitFirst(text, sep) ==
    LET hits == {i \in 1..Len(text) : text[i] = sep}
    IN  IF hits = {} THEN text
        ELSE SubSeq(text, 1, (CHOOSE i \in hits : \A j \in hits : i <= j) - 1)

DigitChars == <<"0", "1", "2", "3", "4", "5", "6", "7", "8", "9">>

\* String(n) of a natural number.
RECURSIVE Decimal(_)
Decimal(n) ==
    IF n < 10 THEN <<DigitChars[n + 1]>>
    ELSE Decimal(n \div 10) \o <<DigitChars[(n % 10) + 1]>>

\* pad of filterBus: String(n).padStart(2, '0')
Pad(n) == IF n < 10 THEN <<"0">> \o Decimal(n) ELSE Decimal(n)

ZpgsaBus(vid, lbl, dev, ctl, la, lo, latest) ==
    [id |-> vid, label |-> lbl, deviation |-> dev, controlMan |-> ctl,
     lat |-> la, lon |-> lo, latestRouteStop |-> latest,
     line |-> "7", route |-> "r7", destination |-> "Depot"]

\* filterBus of part_000: the Bus made of a ZpgsaBus.
filterBus(bus) ==
    LET deviation == bus.deviation
        sign == IF deviation < 0 THEN "-" ELSE "+"
        abs == IF deviation < 0 THEN 0 - deviation ELSE deviation
        hours == abs \div 3600000
        minutes == (abs % 3600000) \div 60000
        seconds == (abs % 60000) \div 1000
        deviationString ==
            <<sign>> \o (IF hours > 0 THEN Pad(hours) \o <<":">> ELSE <<>>)
                     \o Pad(minutes) \o <<":">> \o Pad(seconds)
        icon == IF deviation > 0
                THEN IF bus.controlMan THEN "bus-control-man"
                     ELSE IF minutes >= 3 THEN "bus-late" ELSE "bus-on-time"
                ELSE IF minutes >= 1 THEN "bus-ahead" ELSE "bus-on-time"
    IN  [id |-> bus.id,
         label |-> SplitFirst(SplitFirst(bus.label, " "), "-"),
         lat |-> bus.lat,
         lon |-> bus.lon,
         line |-> bus.line,
         route |-> bus.route,
         latest_route_stop |-> SplitFirst(bus.latestRouteStop, " "),
         deviation |-> deviationString,
         icon |-> icon,
         destination |-> bus.destination]

\* ReplaceBuses keeping the vehicles the response does not name.
ReplaceBuses_KeepsAbsent(held, received) ==
    [i \in 1..Len(received) |-> filterBus(received[i])]
      \o SelectSeq(held, LAMBDA bus :
             \A i \in 1..Len(received) : received[i].id # bus.id)

\* Line 159: what this.buses becomes.
ReplaceBuses(held, received) == [i \in 1..Len(received) |-> filterBus(received[i])]

\* this.buses.find(bus => bus.id === busId): the indices that match.
FoundBus(held, busId) == {i \in 1..Len(held) : held[i].id = busId}

FirstOf(indices) == CHOOSE i \in indices : \A j \in indices : i <= j

\* The updateRoute calls in flight are told apart by what they hold: the
\* vehicle id, the Bus read at line 254, and a number for calls alike.
Task(busId, bus, n) == [busId |-> busId, bus |-> bus, copy |-> n]

\* queueMicrotask(() => this.updateRoute(busId)) up to the await of line
\* 255. A vehicle this.buses does not hold makes getRoute throw on
\* bus.route: the call ends there, rejected.
StartUpdateRoute(ts, busId, held) ==
    IF FoundBus(held, busId) = {} THEN ts
    ELSE LET bus == held[FirstOf(FoundBus(held, busId))]
             used == {t.copy : t \in {u \in ts : u.busId = busId /\ u.bus = bus}}
             n == CHOOSE k \in 1..(Cardinality(used) + 1) :
                     /\ k \notin used
                     /\ \A j \in 1..(k - 1) : j \in used
         IN  ts \cup {Task(busId, bus, n)}

\* this.map.removeLayer(layer) leaving the layer on the map.
RemoveLayer_Keeps(layers, layer) == layers

\* this.map.removeLayer(layer)
RemoveLayer(layers, layer) == layers \ {layer}

Polyline(pid, latLngs, busId) == [id |-> pid, latLngs |-> latLngs, builtFor |-> busId]

PolylineOf(ps, pid) == CHOOSE p \in ps : p.id = pid

\* The polylines something still refers to: this.currentRoute and the map.
Alive(ps, cur, layers) == {p \in ps : p.id = cur \/ p.id \in layers}

\* Lines 257-261: the first point of this.currentRoute set in place.
WithFirstPoint(ps, cur, latLng) ==
    IF cur = NoPolyline THEN ps
    ELSE {IF p.id = cur THEN [p EXCEPT !.latLngs[1] = latLng] ELSE p : p \in ps}

\* StillTracked letting every call store its path.
StillTracked_Always(tracked, busId) == TRUE

\* Line 273: whether updateRoute goes on to store its path.
StillTracked(tracked, busId) == tracked = busId

\* The stops and the route of the tracked vehicles. Ids are texts here,
\* as latestRouteStop is split.
TrackStops ==
    <<Stop(<<"A">>, 50, 16), Stop(<<"B">>, 51, 17), Stop(<<"C">>, 52, 0),
      Stop(<<"D">>, 53, 20)>>

TrackedRoute ==
    <<Point(<<"A">>, <<"1">>), Point(<<"B">>, <<"2">>), Point(<<"C">>, <<"3">>),
      Point(<<"D">>, <<"1", "0">>)>>

\* What /api/buses may say of each vehicle.
V1_AtA == ZpgsaBus("v1", <<"7", "-", "1", " ", "a">>, 200000, FALSE, 50, 17,
                   <<"A", " ", "x">>)
V1_AtB == ZpgsaBus("v1", <<"7", "-", "1">>, 0 - 70000, FALSE, 51, 18, <<"B">>)
V2_AtB == ZpgsaBus("v2", <<"9">>, 3700000, TRUE, 52, 19, <<"B", " ", "y">>)

Payloads ==
    {first \o second : first \in {<<>>, <<V1_AtA>>, <<V1_AtB>>},
                       second \in {<<>>, <<V2_AtB>>}}

\* The most /api/buses requests, context-menu events, and updateRoute calls
\* in flight at once.
MaxPolls == 2
MaxClicks == 3
MaxTasks == 2

InitTrack ==
    /\ InitMap
    /\ stops = TrackStops
    /\ route = TrackedRoute
    /\ latestRouteStop = ""
    /\ routePc = "projected"
    /\ ahead = <<>>
    /\ busLatLng = <<0, 0>>
    /\ fullPath = <<>>
    /\ buses = <<>>
    /\ clock = DateTime(Tue_Jan_07, 7, 30, 0)
    /\ pc = "shown"
    /\ nowDate = clock
    /\ dayBuses = <<>>
    /\ filteredBuses = <<>>
    /\ extendedRan = FALSE
    /\ extended = <<>>
    /\ result = <<>>

\* Lines 156-157: the timer fires and /api/buses is requested.
Tick ==
    /\ polls < MaxPolls
    /\ \E payload \in Payloads :
          pending' = pending \cup {[seq |-> polls + 1, payload |-> payload]}
    /\ polls' = polls + 1
    /\ UNCHANGED <<mapBuses, busMarkers, currentRouteBusId, currentRoute, polylines,
                   mapLayers, tasks, clicks, lastPoll>>
    /\ UNCHANGED <<filterVars, routeVars>>

\* Lines 158-174: the subscriber of /api/buses, with the updateRoute it
\* queues.
BusesResponse(r) ==
    /\ r \in pending
    /\ LET received == ReplaceBuses(mapBuses, r.payload)
           refreshed == {i \in 1..Len(received) :
                           /\ busMarkers[received[i].id] # NoMarker
                           /\ currentRouteBusId = received[i].id
                           /\ currentRoute # NoPolyline}
       IN  /\ mapBuses' = received
           /\ busMarkers' =
                [id \in VehicleIds |->
                   IF FoundBus(received, id) = {} THEN busMarkers[id]
                   ELSE LET bus == received[CHOOSE i \in FoundBus(received, id) :
                                              \A j \in FoundBus(received, id) : j <= i]
                        IN  <<bus.lat, bus.lon>>]
           /\ refreshed # {} => Cardinality(tasks) < MaxTasks
           /\ tasks' = IF refreshed = {} THEN tasks
                       ELSE StartUpdateRoute(tasks, currentRouteBusId, received)
    /\ pending' = pending \ {r}
    /\ lastPoll' = r
    /\ UNCHANGED <<currentRouteBusId, currentRoute, polylines, mapLayers, polls, clicks>>
    /\ UNCHANGED <<filterVars, routeVars>>

\* /api/buses fails: the subscriber has no error handler.
BusesFails(r) ==
    /\ r \in pending
    /\ pending' = pending \ {r}
    /\ UNCHANGED <<mapBuses, busMarkers, currentRouteBusId, currentRoute, polylines,
                   mapLayers, tasks, polls, clicks, lastPoll>>
    /\ UNCHANGED <<filterVars, routeVars>>

\* Lines 227-236: the context menu of the marker of vehicle busId, with the
\* updateRoute it queues.
ContextMenu(busId) ==
    /\ busMarkers[busId] # NoMarker
    /\ clicks < MaxClicks
    /\ clicks' = clicks + 1
    /\ IF currentRouteBusId = busId /\ currentRoute # NoPolyline
       THEN /\ currentRouteBusId' = NULL
            /\ mapLayers' = RemoveLayer(mapLayers, currentRoute)
            /\ currentRoute' = NoPolyline
            /\ polylines' = Alive(polylines, NoPolyline, mapLayers')
            /\ UNCHANGED tasks
       ELSE /\ currentRouteBusId' = busId
            /\ FoundBus(mapBuses, busId) # {} => Cardinality(tasks) < MaxTasks
            /\ tasks' = StartUpdateRoute(tasks, busId, mapBuses)
            /\ UNCHANGED <<currentRoute, polylines, mapLayers>>
    /\ UNCHANGED <<mapBuses, busMarkers, pending, polls, lastPoll>>
    /\ UNCHANGED <<filterVars, routeVars>>

\* Lines 255-274: the route of a call arrives; getRoute slices it and
\* updateRoute runs to its end.
RouteFetched(t) ==
    /\ t \in tasks
    /\ LET sliced == SliceAhead(route, t.bus.latest_route_stop)
           edited == WithFirstPoint(polylines, currentRoute, <<t.bus.lat, t.bus.lon>>)
           path == FullPath(<<t.bus.lat, t.bus.lon>>, sliced, stops)
           layers == IF currentRoute # NoPolyline
                     THEN RemoveLayer(mapLayers, currentRoute) ELSE mapLayers
       IN  IF ~StillTracked(currentRouteBusId, t.busId)
           THEN /\ mapLayers' = layers
                /\ polylines' = Alive(edited, currentRoute, layers)
                /\ UNCHANGED currentRoute
           ELSE LET created == CHOOSE n \in 1..(Cardinality(layers) + 1) :
                                  /\ n \notin layers
                                  /\ \A k \in 1..(n - 1) : k \in layers
                IN  /\ currentRoute' = created
                    /\ mapLayers' = layers \cup {created}
                    /\ polylines' =
                         Alive(edited, NoPolyline, layers)
                           \cup {Polyline(created, path, t.busId)}
    /\ tasks' = tasks \ {t}
    /\ UNCHANGED <<mapBuses, busMarkers, currentRouteBusId, pending, polls, clicks,
                   lastPoll>>
    /\ UNCHANGED <<filterVars, routeVars>>

\* Lines 243-245: the route request of a call fails; updateRoute ends
\* rejected at line 255.
RouteFetchFails(t) ==
    /\ t \in tasks
    /\ tasks' = tasks \ {t}
    /\ UNCHANGED <<mapBuses, busMarkers, currentRouteBusId, currentRoute, polylines,
                   mapLayers, pending, polls, clicks, lastPoll>>
    /\ UNCHANGED <<filterVars, routeVars>>

NextTrack ==
    \/ Tick
    \/ \E r \in pending : BusesResponse(r)
    \/ \E r \in pending : BusesFails(r)
    \/ \E busId \in VehicleIds : ContextMenu(busId)
    \/ \E t \in tasks : RouteFetched(t)
    \/ \E t \in tasks : RouteFetchFails(t)

SpecTrack == InitTrack /\ [][NextTrack]_vars

-----------------------------------------------------------------------------
(* The tracking that is left alone: once the context menu has been used    *)
(* MaxClicks times nothing more is done by the user; from then on the      *)
(* timer keeps firing, every response names the tracked vehicle and no     *)
(* request fails. The requests are not numbered here, so that the timer    *)
(* never runs out of them.                                                 *)

\* The most /api/buses requests in flight at once when they are unnumbered.
MaxInFlight == 1

\* The user has started tracking a vehicle and does nothing more.
LeftTracking == clicks = MaxClicks /\ currentRouteBusId # NULL

\* Whether a /api/buses response names a vehicle.
Names(payload, busId) == \E i \in 1..Len(payload) : payload[i].id = busId

\* Lines 156-157, requests unnumbered.
TickOn ==
    /\ Cardinality(pending) < MaxInFlight
    /\ \E payload \in Payloads :
          /\ LeftTracking => Names(payload, currentRouteBusId)
          /\ pending' = pending \cup {[seq |-> polls, payload |-> payload]}
    /\ UNCHANGED <<mapBuses, busMarkers, currentRouteBusId, currentRoute, polylines,
                   mapLayers, tasks, polls, clicks, lastPoll>>
    /\ UNCHANGED <<filterVars, routeVars>>

\* Lines 227-236; the last use of the context menu, when it leaves a
\* vehicle tracked, comes when the responses on their way name the vehicle.
ContextMenuOn(busId) ==
    /\ ContextMenu(busId)
    /\ (clicks' = MaxClicks /\ currentRouteBusId' # NULL) =>
          \A r \in pending : Names(r.payload, currentRouteBusId')

\* A /api/buses request fails, while the user is still at it.
BusesFailsEarly(r) ==
    /\ clicks < MaxClicks
    /\ BusesFails(r)

\* A route request fails, while the user is still at it.
RouteFetchFailsEarly(t) ==
    /\ clicks < MaxClicks
    /\ RouteFetchFails(t)

NextLive ==
    \/ TickOn
    \/ \E r \in pending : BusesResponse(r)
    \/ \E r \in pending : BusesFailsEarly(r)
    \/ \E busId \in VehicleIds : ContextMenuOn(busId)
    \/ \E t \in tasks : RouteFetched(t)
    \/ \E t \in tasks : RouteFetchFailsEarly(t)

\* The timer fires again and again (setInterval), a response on its way is
\* handled, a route awaited arrives.
FairLive ==
    /\ WF_vars(TickOn)
    /\ WF_vars(\E r \in pending : BusesResponse(r))
    /\ WF_vars(\E t \in tasks : RouteFetched(t))

SpecLive == InitTrack /\ [][NextLive]_vars /\ FairLive

-----------------------------------------------------------------------------
(* What the claims speak of.                                               *)

Shown == pc = "shown"

DayMonth(date) == [day |-> date.day, month |-> date.month]

\* The entries of the result that come from the reference day, and those
\* that come from the day after.
SameDayCount == Min(Len(filteredBuses), Len(result))
SameDayPart == SubSeq(result, 1, SameDayCount)
NextDayPart == SubSeq(result, SameDayCount + 1, Len(result))

\* The clock time of an entry placed on a date, in seconds from the start
\* of year 0 (for an entry whose time is HH:mm).
InstantOn(bus, date) ==
    LET p == FromFormat(bus.time)
    IN  ToSeconds([date EXCEPT !.hour = p.hour, !.minute = p.minute, !.second = 0])

\* The concrete departure instant of the i-th entry of the result.
InstantOf(i) ==
    InstantOn(result[i], IF i <= SameDayCount THEN nowDate ELSE PlusOneDay(nowDate))

WellFormed(bus) == FromFormat(bus.time).isValid

Count(s, key) ==
    Cardinality({i \in 1..Len(s) :
                   <<s[i].time, s[i].line, s[i].destination>> = key})

Keys(s) == {<<s[i].time, s[i].line, s[i].destination>> : i \in 1..Len(s)}

\* C1: on a holiday, whatever its weekday, filterBuses keeps exactly the
\* entries with operating_days = 'sun'.
C1_HolidayIsSundayService ==
    (Shown /\ DayMonth(nowDate) \in holidays) =>
        dayBuses = SelectSeq(buses, LAMBDA b : b.operating_days = "sun")

C1_Witness ==
    /\ Shown /\ DayMonth(nowDate) \in holidays /\ nowDate.weekday = 6
    /\ \E i \in 1..Len(buses) : buses[i].operating_days = "sat"
    /\ dayBuses # <<>>

\* C2: on a non-holiday Monday-to-Friday date, filterBuses keeps exactly the
\* 'mon_fri' entries whose school restriction allows the date: free-days-only
\* entries on dates of the school-free set, school-days-only entries on the
\* other dates, unrestricted entries always.
C2_WeekdaySchoolRestriction ==
    (Shown /\ DayMonth(nowDate) \notin holidays /\ nowDate.weekday \in 1..5) =>
        LET free == DayMonth(nowDate) \in daysFreeFromSchool
        IN  dayBuses = SelectSeq(buses, LAMBDA b :
                /\ b.operating_days = "mon_fri"
                /\ (b.school_restriction = "free_day_only" => free)
                /\ (b.school_restriction = "school_only" => ~free))

C2_Witness ==
    /\ Shown /\ DayMonth(nowDate) \notin holidays /\ nowDate.weekday \in 1..5
    /\ DayMonth(nowDate) \in daysFreeFromSchool
    /\ \E i \in 1..Len(dayBuses) : dayBuses[i].school_restriction = "free_day_only"
    /\ \E i \in 1..Len(buses) :
          /\ buses[i].operating_days = "mon_fri"
          /\ buses[i].school_restriction = "school_only"

\* C3: the result never has more than 15 entries, with or without the
\* next-day extension.
C3_AtMostLimit == Shown => Len(result) <= 15

C3_Witness ==
    /\ Shown /\ extendedRan /\ Len(result) = 15
    /\ Len(filteredBuses) + Len(extended) > 15

\* C4: the result is non-decreasing in concrete departure instant (same-day
\* entries on the reference date, next-day entries on the following date).
C4_NonDecreasing ==
    Shown =>
        \A i, j \in 1..Len(result) :
            i < j => /\ WellFormed(result[i]) /\ WellFormed(result[j])
                     /\ InstantOf(i) <= InstantOf(j)

\* C5: no entry sourced from the reference day departs strictly before the
\* reference instant, and an entry departing exactly at the reference instant
\* is kept.
C5_NoPastSameDay ==
    Shown =>
        /\ \A i \in 1..SameDayCount :
              /\ WellFormed(result[i])
              /\ InstantOn(result[i], nowDate) >= ToSeconds(nowDate)
        /\ \A k \in 1..Len(dayBuses) :
              (/\ WellFormed(dayBuses[k])
               /\ InstantOn(dayBuses[k], nowDate) = ToSeconds(nowDate)
               /\ Len(filteredBuses) <= 15) =>
                  dayBuses[k] \in Range(SameDayPart)

C5_Witness ==
    /\ Shown
    /\ \E i \in 1..SameDayCount : InstantOn(result[i], nowDate) = ToSeconds(nowDate)
    /\ \E k \in 1..Len(dayBuses) :
          /\ WellFormed(dayBuses[k])
          /\ InstantOn(dayBuses[k], nowDate) < ToSeconds(nowDate)
\* Non-decreasing in clock time; an entry without a clock time is in no order.
SortedByClock(s) ==
    \A i, j \in 1..Len(s) :
        i < j => /\ WellFormed(s[i]) /\ WellFormed(s[j])
                 /\ InstantOn(s[i], nowDate) <= InstantOn(s[j], nowDate)

\* C6: with fewer than 15 qualifying same-day departures the result is the
\* sorted same-day departures followed by the next-day departures, sorted
\* among themselves, cut to 15; with 15 or more it has no next-day entry.
C6_PaddedWithNextDay ==
    Shown =>
        LET qualifying == {k \in 1..Len(dayBuses) :
                             /\ WellFormed(dayBuses[k])
                             /\ InstantOn(dayBuses[k], nowDate) >= ToSeconds(nowDate)}
        IN  IF Cardinality(qualifying) < 15
            THEN /\ result = Slice0(filteredBuses \o extended, 15)
                 /\ SortedByClock(filteredBuses)
                 /\ SortedByClock(extended)
            ELSE /\ result = Slice0(filteredBuses, 15)
                 /\ extended = <<>>

\* C7: an entry whose time is not HH:mm never appears in the result, among
\* the same-day entries or among the next-day entries.
C7_NoUnparseableEntry ==
    Shown => \A i \in 1..Len(result) : WellFormed(result[i])

Bus_08_00 == Bus(Str_08_00, "1", "mon_fri", "none")
Bus_07_00 == Bus(Str_07_00, "1", "mon_fri", "none")

\* The scenario of C8: the two-entry timetable on a Tuesday at 07:30 that is
\* neither a holiday nor free from school.
C8_Scenario ==
    /\ Shown
    /\ buses = <<Bus_08_00, Bus_07_00>>
    /\ nowDate.weekday = 2 /\ nowDate.hour = 7 /\ nowDate.minute = 30
    /\ DayMonth(nowDate) \notin holidays
    /\ DayMonth(nowDate) \notin daysFreeFromSchool

\* C8 as stated: the scenario yields exactly the one-entry list [08:00].
C8_OnlySameDayEntry == C8_Scenario => result = <<Bus_08_00>>

\* C8 as amended: the scenario yields the same-day entry [08:00] followed by
\* the next day's [07:00, 08:00], or [08:00] alone when the next day is a
\* holiday.
C8_SameDayThenNextDay ==
    C8_Scenario =>
        /\ SameDayPart = <<Bus_08_00>>
        /\ NextDayPart = IF DayMonth(PlusOneDay(nowDate)) \in holidays THEN <<>>
                         ELSE <<Bus_07_00, Bus_08_00>>

C8_Witness == C8_Scenario /\ Len(result) = 3

\* C9 as stated: for every (time, line, destination) the result holds at
\* most as many entries as the timetable.
C9_NoExtraDuplicates ==
    Shown => \A key \in Keys(result) : Count(result, key) <= Count(buses, key)

\* C9 as amended: for every (time, line, destination) the same-day entries of
\* the result hold at most as many entries as the timetable, and so do its
\* next-day entries.
C9_NoExtraDuplicatesPerDay ==
    Shown =>
        \A key \in Keys(result) :
            /\ Count(SameDayPart, key) <= Count(buses, key)
            /\ Count(NextDayPart, key) <= Count(buses, key)

C9_Witness ==
    /\ Shown
    /\ \E key \in Keys(result) :
          /\ Count(SameDayPart, key) = 1
          /\ Count(NextDayPart, key) = 1
          /\ Count(buses, key) = 1
\* The value of a text that is a decimal numeral; a text with no digit is
\* not a number.
RECURSIVE Numeral(_)
Numeral(text) ==
    IF Len(text) = 1 THEN DigitVal(text[1])
    ELSE Numeral(SubSeq(text, 1, Len(text) - 1)) * 10 + DigitVal(text[Len(text)])

IsNumeral(text) == text # <<>> /\ \A i \in 1..Len(text) : text[i] \in Digits

\* One order strictly greater than another, both read as numbers.
NumericallyGreater(a, b) == IsNumeral(a) /\ IsNumeral(b) /\ Numeral(a) > Numeral(b)

Matches == {i \in 1..Len(route) : route[i].stopId = latestRouteStop}

RouteDone == routePc = "done"

\* C10: when a checkpoint of the route is at the vehicle's last passed stop,
\* getRoute returns exactly the checkpoints whose order is numerically
\* greater than that of the first such checkpoint, in route order; the
\* matched checkpoint is never returned, and the orders returned from a route
\* of strictly increasing orders are strictly increasing.
C10_StrictlyAhead ==
    (RouteDone /\ Matches # {}) =>
        LET m == CHOOSE i \in Matches : \A j \in Matches : i <= j
        IN  /\ ahead = SelectSeq(route, LAMBDA point :
                           NumericallyGreater(point.order, route[m].order))
            /\ route[m] \notin Range(ahead)
            /\ (\A i, j \in 1..Len(route) :
                    i < j => NumericallyGreater(route[j].order, route[i].order))
               => \A i, j \in 1..Len(ahead) :
                    i < j => NumericallyGreater(ahead[j].order, ahead[i].order)

C10_Witness ==
    /\ RouteDone
    /\ route = <<Point("A", <<"0">>), Point("B", <<"2">>), Point("C", <<"1", "0">>)>>
    /\ latestRouteStop = "A"
    /\ ahead = <<Point("B", <<"2">>), Point("C", <<"1", "0">>)>>
Projected == routePc = "projected"

\* C11: when no checkpoint of the route is at the vehicle's last passed stop,
\* getRoute returns the empty list and the path built from it is the single
\* point of the vehicle's position.
C11_OffRouteSinglePoint ==
    (Projected /\ Matches = {}) => /\ ahead = <<>>
                                    /\ fullPath = <<busLatLng>>

C11_Witness ==
    /\ Projected /\ Matches = {}
    /\ Len(route) = 3
    /\ \E i \in 1..Len(route) : route[i].order = <<"1", "0">>
    /\ fullPath = <<busLatLng>>

\* Whether the lookup holds the stop of a checkpoint.
Resolves(point) == \E j \in 1..Len(stops) : stops[j].id = point.stopId

\* C12: the path after its first point is, in order, the coordinates of the
\* stops of the sliced checkpoints, leaving out exactly the checkpoints whose
\* stop is unknown or at (0, 0).
C12_DropsOnlyUnresolved ==
    Projected =>
        LET kept == SelectSeq(ahead, LAMBDA point :
                        /\ Resolves(point)
                        /\ StopLatLng(point, stops) # <<0, 0>>)
        IN  Tail(fullPath) = [i \in 1..Len(kept) |-> StopLatLng(kept[i], stops)]
\* How often an entry occurs in a list.
Occurrences(s, bus) == Cardinality({i \in 1..Len(s) : s[i] = bus})

\* C19: on rollover the next-day entries are the entries of the timetable
\* whose service class is that of the date after the reference instant
\* (holiday table, weekday and school-free table all looked up for that
\* date), none of them left out for its clock time.
C19_RolloverClassifiesNextDate ==
    (Shown /\ extendedRan) =>
        LET next == PlusOneDay(nowDate)
            service == IF DayMonth(next) \in holidays \/ next.weekday = 7 THEN "sun"
                       ELSE IF next.weekday = 6 THEN "sat" ELSE "mon_fri"
            free == DayMonth(next) \in daysFreeFromSchool
            selected == SelectSeq(buses, LAMBDA b :
                /\ b.operating_days = service
                /\ service = "mon_fri" =>
                     /\ (b.school_restriction = "free_day_only" => free)
                     /\ (b.school_restriction = "school_only" => ~free))
        IN  /\ Len(extended) = Len(selected)
            /\ \A i \in 1..Len(buses) :
                  Occurrences(extended, buses[i]) = Occurrences(selected, buses[i])

\* A Friday whose Saturday entries are appended, one of them with a clock
\* time earlier than that of the reference instant.
C19_Witness ==
    /\ Shown /\ extendedRan
    /\ nowDate.weekday = 5
    /\ DayMonth(PlusOneDay(nowDate)) \notin holidays
    /\ \E i \in 1..Len(extended) :
          /\ extended[i].operating_days = "sat"
          /\ WellFormed(extended[i])
          /\ InstantOn(extended[i], nowDate) < ToSeconds(nowDate)
    /\ \E i \in 1..Len(buses) : buses[i].operating_days = "mon_fri"

\* The day before a holiday that falls on a working day: the Sunday entries
\* are appended.
C19_HolidayEve ==
    /\ Shown /\ extendedRan
    /\ DayMonth(PlusOneDay(nowDate)) \in holidays
    /\ PlusOneDay(nowDate).weekday \in 1..5
    /\ extended # <<>>
    /\ \A i \in 1..Len(extended) : extended[i].operating_days = "sun"
\* The position this.buses holds for a vehicle (of a vehicle it holds).
HeldLatLng(busId) ==
    LET bus == mapBuses[FirstOf(FoundBus(mapBuses, busId))]
    IN  <<bus.lat, bus.lon>>

Holds(busId) == FoundBus(mapBuses, busId) # {}

\* C13: whenever updateRoute stores a new path, the first point of the path
\* is the position of the tracked vehicle in the snapshots held at that
\* moment.
C13_StoredPathStartsAtVehicle ==
    [][\A t \in tasks :
          (RouteFetched(t) /\ currentRouteBusId = t.busId /\ Holds(t.busId)) =>
              PolylineOf(polylines', currentRoute').latLngs[1] = HeldLatLng(t.busId)]_vars
\* The vehicle the stored path was built for (of a stored path).
BuiltFor == PolylineOf(polylines, currentRoute).builtFor

\* C14: at most one route polyline is on the map, and a polyline on the map
\* is the one this.currentRoute holds.
C14_OnePolylineOnMap ==
    /\ Cardinality(mapLayers) <= 1
    /\ \A layer \in mapLayers : layer = currentRoute

\* The path of a second vehicle on the map, after a switch.
C14_Witness ==
    /\ clicks = 2
    /\ currentRouteBusId = "v2"
    /\ currentRoute # NoPolyline
    /\ mapLayers = {currentRoute}
    /\ BuiltFor = "v2"
    /\ tasks = {}

\* C15: the context-menu action on the tracked vehicle ends tracking: no
\* vehicle is tracked and no path is stored or on the map afterwards,
\* whether or not a path of the vehicle had been built.
C15_ContextMenuOnTrackedEndsTracking ==
    [][\A busId \in VehicleIds :
          (ContextMenu(busId) /\ currentRouteBusId = busId) =>
              /\ currentRouteBusId' = NULL
              /\ currentRoute' = NoPolyline
              /\ mapLayers' = {}]_vars

\* C16: the stored path is never one built for a vehicle other than the
\* tracked one.
C16_PathIsOfTrackedVehicle ==
    (currentRouteBusId # NULL /\ currentRoute # NoPolyline) =>
        BuiltFor = currentRouteBusId

\* C17: while a vehicle is tracked, every handled position update that
\* names it starts an updateRoute for it, a path built or not.
C17_UpdateOfTrackedRefreshes ==
    [][\A r \in pending :
          (/\ BusesResponse(r)
           /\ currentRouteBusId # NULL
           /\ \E i \in 1..Len(r.payload) : r.payload[i].id = currentRouteBusId) =>
              \E t \in tasks' \ tasks : t.busId = currentRouteBusId]_vars

\* C18: the snapshots held are those of the response handled last, each
\* normalised, and nothing of an earlier response is kept.
C18_LastResponseWins ==
    /\ Len(mapBuses) = Len(lastPoll.payload)
    /\ \A i \in 1..Len(mapBuses) : mapBuses[i] = filterBus(lastPoll.payload[i])

\* The first request answered after the second: the second named vehicle
\* v2 (it has a marker), the first does not, and v2 is not held.
C18_Witness ==
    /\ lastPoll.seq = 1
    /\ polls = 2
    /\ busMarkers["v2"] # NoMarker
    /\ ~Holds("v2")
    /\ Holds("v1")
    /\ mapBuses[1].latest_route_stop = <<"A">>
    /\ mapBuses[1].label = <<"7">>

\* C20: an updateRoute started for one vehicle that ends after the tracking
\* has gone to another leaves the stored path of the other as it is: no
\* point of it changed, and on the map if it was.
C20_StaleRefreshLeavesPath ==
    [][\A t \in tasks :
          (/\ RouteFetched(t)
           /\ t.busId # currentRouteBusId
           /\ currentRoute # NoPolyline
           /\ BuiltFor = currentRouteBusId) =>
              /\ currentRoute' = currentRoute
              /\ PolylineOf(polylines', currentRoute') = PolylineOf(polylines, currentRoute)
              /\ mapLayers' = mapLayers]_vars
\* C21: when no vehicle is tracked, no path is stored and none is on the
\* map; an updateRoute that ends after the tracking was switched off stores
\* nothing.
C21_UntrackedHasNoPath ==
    currentRouteBusId = NULL => /\ currentRoute = NoPolyline
                                /\ mapLayers = {}

\* Tracking switched off by the context menu while an updateRoute of the
\* vehicle is awaiting its route.
C21_Witness ==
    /\ currentRouteBusId = NULL
    /\ clicks = 2
    /\ currentRoute = NoPolyline
    /\ \E t \in tasks : t.busId = "v1"
\* A path built for the vehicle is on the map.
Displayed(busId) ==
    /\ currentRoute # NoPolyline
    /\ currentRoute \in mapLayers
    /\ BuiltFor = busId

\* C22: once the user has started tracking a vehicle and does nothing more,
\* with the vehicle named by every response handled from then on and every
\* route request answered, a path built for the vehicle is eventually on the
\* map.
C22_TrackedVehicleGetsPath ==
    \A busId \in VehicleIds :
        (LeftTracking /\ currentRouteBusId = busId) ~> Displayed(busId)
====
